---- MODULE Spec2Model ----
(***************************************************************************)
(* A model of mergething's IPython history sync (src/mergething/ipython.py):*)
(* the selection of history files that are safe to read, the merge of      *)
(* their sessions into a target store, the retention sweep, and the        *)
(* start-up / exit sequence of one IPython process on a shared directory.  *)
(*                                                                         *)
(* File names are sequences of one-character strings, so that formatting   *)
(* (the f-strings) and parsing (split, replace, int, glob) are computed as *)
(* the code computes them.                                                 *)
(***************************************************************************)
EXTENDS Integers, Sequences, FiniteSets, TLC

VARIABLES
    dir,      \* the sync directory: file name -> [mtime, store]
    clock,    \* time.time(), in half seconds
    procs,    \* the IPython processes: process -> its record
    calls     \* the calls made to the functions so far, with what they returned

vars == <<dir, clock, procs, calls>>

----------------------------------------------------------------------------
(* Strings *)

Prefix == <<"i", "p", "y", "t", "h", "o", "n", "_", "h", "i", "s", "t", "o", "r", "y", "_">>
CompletedMark == <<"_", "c", "o", "m", "p", "l", "e", "t", "e", "d">>
DotDb == <<".", "d", "b">>
Underscore == <<"_">>
DigitChars == <<"0", "1", "2", "3", "4", "5", "6", "7", "8", "9">>

StartsWith(s, p) == Len(s) >= Len(p) /\ SubSeq(s, 1, Len(p)) = p

EndsWith(s, p) == Len(s) >= Len(p) /\ SubSeq(s, Len(s) - Len(p) + 1, Len(s)) = p

\* sub in s
Contains(s, sub) ==
    \E i \in 1..(Len(s) - Len(sub) + 1) : \A j \in 1..Len(sub) : s[i + j - 1] = sub[j]

\* s.replace(sub, ''): every occurrence, left to right, without overlap
RECURSIVE Replace(_, _)
Replace(s, sub) ==
    LET at == {i \in 1..(Len(s) - Len(sub) + 1) :
                  \A j \in 1..Len(sub) : s[i + j - 1] = sub[j]}
    IN  IF at = {} THEN s
        ELSE LET i == CHOOSE k \in at : \A m \in at : k <= m
             IN  SubSeq(s, 1, i - 1) \o Replace(SubSeq(s, i + Len(sub), Len(s)), sub)

\* s.split('_'): the fields between the underscores, empty fields kept
RECURSIVE Split(_)
Split(s) ==
    LET at == {i \in 1..Len(s) : s[i] = "_"}
    IN  IF at = {} THEN <<s>>
        ELSE LET i == CHOOSE k \in at : \A m \in at : k <= m
             IN  <<SubSeq(s, 1, i - 1)>> \o Split(SubSeq(s, i + 1, Len(s)))

\* Path(name).stem: the name without its last suffix
Stem(name) ==
    LET dots == {i \in 2..(Len(name) - 1) : name[i] = "."}
    IN  IF dots = {} THEN name
        ELSE SubSeq(name, 1, (CHOOSE i \in dots : \A j \in dots : j <= i) - 1)

DigitValue(c) == CHOOSE d \in 0..9 : DigitChars[d + 1] = c

\* whether int(field) returns (the names of the model hold no sign and no blank)
IsInt(field) == Len(field) > 0 /\ \A i \in 1..Len(field) : \E d \in 1..10 : DigitChars[d] = field[i]

\* int(field), for a field of digits
RECURSIVE ToInt(_)
ToInt(field) ==
    IF Len(field) = 0 THEN 0
    ELSE 10 * ToInt(SubSeq(field, 1, Len(field) - 1)) + DigitValue(field[Len(field)])

\* f"{n}" for an integer n >= 0
RECURSIVE IntToStr(_)
IntToStr(n) ==
    IF n < 10 THEN <<DigitChars[n + 1]>>
    ELSE IntToStr(n \div 10) \o <<DigitChars[(n % 10) + 1]>>

\* a glob pattern with one star: pre*suf
GlobMatch(name, pre, suf) ==
    /\ Len(name) >= Len(pre) + Len(suf)
    /\ StartsWith(name, pre)
    /\ EndsWith(name, suf)

\* f"ipython_history_{hostname}_{pid}_{timestamp}.db"
CurrentFileName(hostname, pid, timestamp) ==
    Prefix \o hostname \o Underscore \o IntToStr(pid) \o Underscore \o IntToStr(timestamp) \o DotDb

\* f"ipython_history_{hostname}_{timestamp}_completed.db"
CompletedFileName(hostname, timestamp) ==
    Prefix \o hostname \o Underscore \o IntToStr(timestamp) \o CompletedMark \o DotDb

----------------------------------------------------------------------------
(* get_safe_files_for_merge *)

\* sort_key: NoKey stands for the None the function returns when it falls off
\* its end (fewer than four fields); (False, 0) when int() raises ValueError
NoKey == [none |-> TRUE, machine |-> FALSE, timestamp |-> 0]

sort_key(file_path, current_hostname) ==
    LET parts == Split(Replace(Stem(file_path), CompletedMark))
    IN  IF Len(parts) >= 4
        THEN IF IsInt(parts[Len(parts)])
             THEN [none |-> FALSE, machine |-> (parts[3] = current_hostname),
                   timestamp |-> ToInt(parts[Len(parts)])]
             ELSE [none |-> FALSE, machine |-> FALSE, timestamp |-> 0]
        ELSE NoKey

\* (is_this_machine, timestamp) < (is_this_machine, timestamp), False < True
KeyLess(a, b) ==
    \/ ~a.machine /\ b.machine
    \/ a.machine = b.machine /\ a.timestamp < b.timestamp

\* list.sort(key=sort_key, reverse=True): descending and stable
RECURSIVE SortSafeFiles(_, _)
SortSafeFiles(files, current_hostname) ==
    IF files = <<>> THEN <<>>
    ELSE LET rest == SortSafeFiles(SubSeq(files, 1, Len(files) - 1), current_hostname)
             x == files[Len(files)]
             kx == sort_key(x, current_hostname)
             before == {i \in 1..Len(rest) : ~KeyLess(sort_key(rest[i], current_hostname), kx)}
             n == IF before = {} THEN 0 ELSE CHOOSE i \in before : \A j \in before : j <= i
         IN  SubSeq(rest, 1, n) \o <<x>> \o SubSeq(rest, n + 1, Len(rest))

\* the test of the second loop: a regular file of another machine
IsOtherMachineFile(file_path, current_file, current_hostname) ==
    /\ file_path # current_file
    /\ ~Contains(file_path, CompletedMark)
    /\ LET parts == Split(Stem(file_path))
       IN  Len(parts) >= 4 /\ parts[3] # current_hostname

\* listing: the directory's entries in the order the file system lists them.
\* Comparing a None key raises TypeError, which nothing catches.
get_safe_files_for_merge(listing, current_file, current_hostname) ==
    LET IsCompleted(f) == GlobMatch(f, Prefix, CompletedMark \o DotDb)
        IsOther(f) == GlobMatch(f, Prefix, DotDb)
                      /\ IsOtherMachineFile(f, current_file, current_hostname)
        safe_files == SelectSeq(listing, IsCompleted) \o SelectSeq(listing, IsOther)
        raised == /\ Len(safe_files) >= 2
                  /\ \E i \in 1..Len(safe_files) : sort_key(safe_files[i], current_hostname).none
    IN  IF raised THEN [raised |-> TRUE, files |-> <<>>]
        ELSE [raised |-> FALSE, files |-> SortSafeFiles(safe_files, current_hostname)]

----------------------------------------------------------------------------
(* Stores: a file's content as SQLite sees it *)

TableNames == {"sessions", "history", "output_history"}

\* SQL NULL in a text column
Null == "<NULL>"

\* a zero-length file: a database without tables
ZeroLengthStore ==
    [isdb |-> TRUE, tables |-> {}, sessions |-> {}, history |-> {}, output_history |-> {}]

\* a file that is not a database
GarbageStore ==
    [isdb |-> FALSE, tables |-> {}, sessions |-> {}, history |-> {}, output_history |-> {}]

\* the CREATE TABLE IF NOT EXISTS statements, on a database
CreateTables(store) == [store EXCEPT !.tables = TableNames]

\* mutant: the sessions of a source read from the last id to the first
RECURSIVE OrderBySessionDescending(_)
OrderBySessionDescending(rows) ==
    IF rows = {} THEN <<>>
    ELSE LET r == CHOOSE x \in rows : \A y \in rows : x.session >= y.session
         IN  <<r>> \o OrderBySessionDescending(rows \ {r})

\* ORDER BY session
RECURSIVE OrderBySession(_)
OrderBySession(rows) ==
    IF rows = {} THEN <<>>
    ELSE LET r == CHOOSE x \in rows : \A y \in rows : x.session <= y.session
         IN  <<r>> \o OrderBySession(rows \ {r})

\* ORDER BY line
RECURSIVE OrderByLine(_)
OrderByLine(rows) ==
    IF rows = {} THEN <<>>
    ELSE LET r == CHOOSE x \in rows : \A y \in rows : x.line <= y.line
         IN  <<r>> \o OrderByLine(rows \ {r})

\* mutant: the rows read with NULL text already turned into ""
RowsOfSessionBlanked(table, orig_session) ==
    LET Blanked(r) ==
            [c \in DOMAIN r |-> IF c \in {"source", "source_raw", "output"} /\ r[c] = Null
                                THEN "" ELSE r[c]]
    IN  OrderByLine({Blanked(r) : r \in {x \in table : x.session = orig_session}})

\* SELECT ... FROM history / output_history WHERE session = ? ORDER BY line
RowsOfSession(table, orig_session) == OrderByLine({r \in table : r.session = orig_session})

\* mutant: the text as stored, NULL kept apart from ""
OrEmptyKeepsNull(text) == text

\* text or ""
OrEmpty(text) == IF text = Null THEN "" ELSE text

commands_tuple(commands) ==
    [i \in 1..Len(commands) |->
        <<commands[i].line, OrEmpty(commands[i].source), OrEmpty(commands[i].source_raw)>>]

outputs_tuple(outputs) ==
    [i \in 1..Len(outputs) |-> <<outputs[i].line, OrEmpty(outputs[i].output)>>]

session_signature(commands, outputs) == <<commands_tuple(commands), outputs_tuple(outputs)>>

\* mutant: the rows inserted under the session id they had in the source
InsertRowsKeepingId(table, rows, next_session_id) ==
    [ok |-> TRUE, table |-> table \cup {rows[i] : i \in 1..Len(rows)}]

\* INSERT INTO history / output_history, row by row, under the new session id;
\* PRIMARY KEY (session, line): a second row with the key raises IntegrityError
\* and leaves the rows inserted before it
RECURSIVE InsertRows(_, _, _)
InsertRows(table, rows, next_session_id) ==
    IF rows = <<>> THEN [ok |-> TRUE, table |-> table]
    ELSE LET row == [Head(rows) EXCEPT !.session = next_session_id]
         IN  IF \E r \in table : r.session = row.session /\ r.line = row.line
             THEN [ok |-> FALSE, table |-> table]
             ELSE InsertRows(table \cup {row}, Tail(rows), next_session_id)

----------------------------------------------------------------------------
(* merge_histories *)

\* The state of the merge loop: the target's rows written so far (committed at
\* the end), seen_sessions, next_session_id, the directory, and whether the
\* source being read has raised sqlite3.Error. accepted and warnings record
\* what the loop did: the (file, original id) behind each new id, and the files
\* given up with a warning.

\* mutant: the output table taken to be there
HasOutputHistoryAlways(src) == TRUE

\* lines 113-118: has_output_history
has_output_history(src) == "output_history" \in src.tables

\* lines 128-188: one session of a source. A SELECT on a table the source
\* lacks raises sqlite3.OperationalError.
ProcessSession(st, source_file, src, session_row) ==
    IF \/ "history" \notin src.tables
       \/ has_output_history(src) /\ "output_history" \notin src.tables
    THEN [st EXCEPT !.error = TRUE]
    ELSE
    LET orig_session == session_row.session
        commands == RowsOfSession(src.history, orig_session)
        outputs == IF has_output_history(src)
                   THEN RowsOfSession(src.output_history, orig_session)
                   ELSE <<>>
        signature == session_signature(commands, outputs)
        seen == st.seen_sessions \cup {signature}
        id == st.next_session_id
        sessions == st.target.sessions \cup {[session_row EXCEPT !.session = id]}
        hist == InsertRows(st.target.history, commands, id)
        outp == InsertRows(st.target.output_history, outputs, id)
    IN  IF signature \in st.seen_sessions THEN st
        ELSE IF \E r \in st.target.sessions : r.session = id
        THEN [st EXCEPT !.seen_sessions = seen, !.error = TRUE]
        ELSE IF ~hist.ok
        THEN [st EXCEPT !.seen_sessions = seen, !.error = TRUE,
                        !.target.sessions = sessions, !.target.history = hist.table]
        ELSE IF ~outp.ok
        THEN [st EXCEPT !.seen_sessions = seen, !.error = TRUE,
                        !.target.sessions = sessions, !.target.history = hist.table,
                        !.target.output_history = outp.table]
        ELSE [st EXCEPT !.seen_sessions = seen,
                        !.target.sessions = sessions, !.target.history = hist.table,
                        !.target.output_history = outp.table,
                        !.next_session_id = id + 1,
                        !.accepted = Append(@, [file |-> source_file, session |-> orig_session])]

\* line 127: the sessions of a source in turn, until one raises
RECURSIVE ProcessSessions(_, _, _, _)
ProcessSessions(st, source_file, src, session_rows) ==
    IF session_rows = <<>> \/ st.error THEN st
    ELSE ProcessSessions(ProcessSession(st, source_file, src, Head(session_rows)),
                         source_file, src, Tail(session_rows))

\* lines 111-190, the body of the try: one source. sqlite3.connect creates a
\* missing file, empty; a file that is no database, or has no sessions table,
\* raises at the first queries.
ReadSource(st, source_file) ==
    LET d == IF source_file \in DOMAIN st.dir THEN st.dir
             ELSE (source_file :> [mtime |-> st.now, store |-> ZeroLengthStore]) @@ st.dir
        src == d[source_file].store
    IN  IF ~src.isdb \/ "sessions" \notin src.tables
        THEN [st EXCEPT !.dir = d, !.error = TRUE]
        ELSE ProcessSessions([st EXCEPT !.dir = d], source_file, src,
                             OrderBySession(src.sessions))

\* mutant: the error of a source is not caught, and ends the reading
ProcessSourceUncaught(st, source_file) == ReadSource(st, source_file)

\* lines 109-195: one source, with the except: every sqlite3.Error ends the
\* source with a warning, and the loop goes on
ProcessSource(st, source_file) ==
    LET done == ReadSource(st, source_file)
    IN  [done EXCEPT !.error = FALSE,
                     !.warnings = IF done.error THEN Append(@, source_file) ELSE @]

\* mutant: the loop ends at the first source that could not be read
RECURSIVE ProcessSourcesUntilWarning(_, _)
ProcessSourcesUntilWarning(st, sorted) ==
    IF sorted = <<>> \/ st.warnings # <<>> THEN st
    ELSE ProcessSourcesUntilWarning(ProcessSource(st, Head(sorted).file), Tail(sorted))

\* line 109: the loop over the sorted sources
RECURSIVE ProcessSources(_, _)
ProcessSources(st, sorted) ==
    IF sorted = <<>> THEN st
    ELSE ProcessSources(ProcessSource(st, Head(sorted).file), Tail(sorted))

\* lines 87-100: the timestamp of each source, from its name or else its mtime;
\* a source with neither is left out
RECURSIVE files_with_times(_, _)
files_with_times(source_files, d) ==
    IF source_files = <<>> THEN <<>>
    ELSE LET source_file == Head(source_files)
             parts == Split(Replace(Stem(source_file), CompletedMark))
             last == parts[Len(parts)]
             rest == files_with_times(Tail(source_files), d)
         IN  IF IsInt(last)
             THEN <<[timestamp |-> ToInt(last), file |-> source_file]>> \o rest
             ELSE IF source_file \in DOMAIN d
             THEN <<[timestamp |-> d[source_file].mtime, file |-> source_file]>> \o rest
             ELSE rest

\* mutant: the sources left in the order of the list
Unsorted(fwt) == fwt

\* line 103: files_with_times.sort(key=lambda x: x[0]): ascending and stable
RECURSIVE SortByTimestamp(_)
SortByTimestamp(fwt) ==
    IF fwt = <<>> THEN <<>>
    ELSE LET rest == SortByTimestamp(SubSeq(fwt, 1, Len(fwt) - 1))
             x == fwt[Len(fwt)]
             before == {i \in 1..Len(rest) : rest[i].timestamp <= x.timestamp}
             n == IF before = {} THEN 0 ELSE CHOOSE i \in before : \A j \in before : j <= i
         IN  SubSeq(rest, 1, n) \o <<x>> \o SubSeq(rest, n + 1, Len(rest))

\* merge_histories(source_files, target_file) on directory d at time now (seconds).
\* CREATE TABLE on a target that is not a database raises, outside every try.
merge_histories(source_files, target_file, d, now) ==
    LET old == IF target_file \in DOMAIN d THEN d[target_file].store ELSE ZeroLengthStore
        sorted == SortByTimestamp(files_with_times(source_files, d))
        created == (target_file :> [mtime |-> now, store |-> CreateTables(old)]) @@ d
        st == ProcessSources([target |-> CreateTables(old), seen_sessions |-> {},
                              next_session_id |-> 1, dir |-> created, now |-> now,
                              error |-> FALSE, accepted |-> <<>>, warnings |-> <<>>],
                             sorted)
    IN  IF ~old.isdb
        THEN [raised |-> TRUE, dir |-> d, files |-> 0, sessions |-> 0,
              accepted |-> <<>>, warnings |-> <<>>]
        ELSE [raised |-> FALSE,
              dir |-> [st.dir EXCEPT ![target_file].store = st.target],
              files |-> Len(sorted), sessions |-> st.next_session_id - 1,
              accepted |-> st.accepted, warnings |-> st.warnings]

----------------------------------------------------------------------------
(* cleanup_old_files *)

\* mutant: a file as old as the cutoff is old too
IsOldFileOrAtCutoff(file_path, max_age_seconds, time) ==
    LET parts == Split(Replace(Stem(file_path), CompletedMark))
        last == parts[Len(parts)]
    IN  IsInt(last) /\ 2 * ToInt(last) <= time - 2 * max_age_seconds

\* the timestamp test of one file: int(parts[-1]) < time.time() - max_age_seconds,
\* with time in half seconds; ValueError skips the file
IsOldFile(file_path, max_age_seconds, time) ==
    LET parts == Split(Replace(Stem(file_path), CompletedMark))
        last == parts[Len(parts)]
    IN  IsInt(last) /\ 2 * ToInt(last) < time - 2 * max_age_seconds

\* the files the two loops unlink
CleanedFiles(d, hostname, current_file, max_age_seconds, time) ==
    {file_path \in DOMAIN d :
        /\ \/ GlobMatch(file_path, Prefix \o hostname \o Underscore, DotDb)
           \/ GlobMatch(file_path, Prefix \o hostname \o Underscore, CompletedMark \o DotDb)
        /\ file_path # current_file
        /\ IsOldFile(file_path, max_age_seconds, time)}

\* the directory after cleanup_old_files
cleanup_old_files(d, hostname, current_file, max_age_seconds, time) ==
    [file_path \in DOMAIN d \ CleanedFiles(d, hostname, current_file, max_age_seconds, time)
        |-> d[file_path]]

----------------------------------------------------------------------------
(* Hosts and the files they write *)

HostA == <<"h", "o", "s", "t", "A">>
HostB == <<"h", "o", "s", "t", "B">>
\* a hostname with an underscore, whose first field is another host's name
HostUnderscore == <<"h", "o", "s", "t", "A", "_", "x">>
\* a hostname that begins with the word completed
HostCompletedX == <<"c", "o", "m", "p", "l", "e", "t", "e", "d", "x">>

Hostnames == {HostA, HostB, HostUnderscore, HostCompletedX}

HasUnderscore(hostname) == \E i \in 1..Len(hostname) : hostname[i] = "_"

\* the name a process gives the file it writes: f.completed says which of the two
FileName(f) ==
    IF f.completed THEN CompletedFileName(f.hostname, f.timestamp)
    ELSE CurrentFileName(f.hostname, f.pid, f.timestamp)

Range(seq) == {seq[i] : i \in 1..Len(seq)}

\* the orders in which a directory may list a set of files
RECURSIVE Listings(_)
Listings(files) ==
    IF files = {} THEN {<<>>}
    ELSE UNION {{<<f>> \o l : l \in Listings(files \ {f})} : f \in files}

EmptyFile == [mtime |-> 0, store |-> ZeroLengthStore]

----------------------------------------------------------------------------
(* SpecSelect: get_safe_files_for_merge on the directories of SelectFiles *)

\* the most files in a directory of SpecSelect
MaxDirFiles == 3

\* files written under the filename grammar, by what wrote them
SelectFiles ==
    {[hostname |-> HostA, pid |-> 100, timestamp |-> 1000, completed |-> FALSE],
     [hostname |-> HostA, pid |-> 0, timestamp |-> 1000, completed |-> TRUE],
     [hostname |-> HostB, pid |-> 200, timestamp |-> 1000, completed |-> FALSE],
     [hostname |-> HostA, pid |-> 999, timestamp |-> 2000, completed |-> FALSE],
     [hostname |-> HostB, pid |-> 0, timestamp |-> 2000, completed |-> TRUE],
     [hostname |-> HostCompletedX, pid |-> 7, timestamp |-> 1500, completed |-> FALSE],
     [hostname |-> HostUnderscore, pid |-> 8, timestamp |-> 1200, completed |-> FALSE]}

\* names outside the grammar that the globs match
MalformedNames ==
    {Prefix \o <<"f", "o", "o">> \o DotDb,
     Prefix \o <<"x">> \o CompletedMark \o DotDb,
     Prefix \o HostB \o <<"_", "5", "_", "x">> \o DotDb}

SelectNames == {FileName(f) : f \in SelectFiles} \cup MalformedNames

\* files around the cutoff of a sweep at 1300 s
CleanupFiles ==
    {[hostname |-> HostA, pid |-> 100, timestamp |-> 1000, completed |-> FALSE],
     [hostname |-> HostA, pid |-> 0, timestamp |-> 1000, completed |-> TRUE],
     [hostname |-> HostA, pid |-> 101, timestamp |-> 999, completed |-> FALSE],
     [hostname |-> HostA, pid |-> 0, timestamp |-> 999, completed |-> TRUE],
     [hostname |-> HostB, pid |-> 200, timestamp |-> 999, completed |-> FALSE],
     [hostname |-> HostUnderscore, pid |-> 8, timestamp |-> 999, completed |-> FALSE],
     [hostname |-> HostA, pid |-> 999, timestamp |-> 2000, completed |-> FALSE]}

GrammarFiles == SelectFiles \cup CleanupFiles

IsGrammarName(name) == \E f \in GrammarFiles : FileName(f) = name

\* what wrote a file of GrammarFiles
WriterOf(name) == CHOOSE f \in GrammarFiles : FileName(f) = name

SelectInit ==
    /\ \E files \in SUBSET SelectNames :
          /\ Cardinality(files) <= MaxDirFiles
          /\ dir = [f \in files |-> EmptyFile]
    /\ clock = 0
    /\ procs = <<>>
    /\ calls = <<>>

\* the in-progress files of the calls: the regular files of SelectFiles, and
\* one of a second process of the host with "_"
SelectCurrents ==
    {f \in SelectFiles : ~f.completed}
        \cup {[hostname |-> HostUnderscore, pid |-> 9, timestamp |-> 2000, completed |-> FALSE]}

SelectCall ==
    /\ calls = <<>>
    /\ \E listing \in Listings(DOMAIN dir), current_hostname \in Hostnames,
          current \in SelectCurrents :
          calls' = <<[op |-> "select", listing |-> listing,
                      current_file |-> FileName(current),
                      current_hostname |-> current_hostname,
                      ret |-> get_safe_files_for_merge(listing, FileName(current),
                                                       current_hostname)]>>
    /\ UNCHANGED <<dir, clock, procs>>

SpecSelect == SelectInit /\ [][SelectCall]_vars

\* the directory of a call holds only files of the grammar, of hosts without "_"
GrammarDirectory(call) ==
    \A name \in Range(call.listing) :
        IsGrammarName(name) /\ ~HasUnderscore(WriterOf(name).hostname)

\* what safety rules 1 to 4 select
SafeByRules(call) ==
    {name \in Range(call.listing) :
        /\ name # call.current_file
        /\ WriterOf(name).completed \/ WriterOf(name).hostname # call.current_hostname}

\* C1: on a directory of grammar files with underscore-free hostnames,
\* get_safe_files_for_merge returns exactly the completed files and the
\* non-completed files of other hosts, without the in-progress file.
C1_SafeSetExact ==
    \A i \in 1..Len(calls) :
        (calls[i].op = "select" /\ GrammarDirectory(calls[i]) /\ ~HasUnderscore(calls[i].current_hostname))
            => /\ ~calls[i].ret.raised
               /\ Range(calls[i].ret.files) = SafeByRules(calls[i])

\* C1, the directory of the specification's example: hostA_100_1000,
\* hostA_1000_completed and hostB_200_1000, read as hostA while writing hostA_999_2000
C1_Example ==
    \A i \in 1..Len(calls) :
        (/\ calls[i].op = "select"
         /\ Range(calls[i].listing) = {CurrentFileName(HostA, 100, 1000),
                                       CompletedFileName(HostA, 1000),
                                       CurrentFileName(HostB, 200, 1000)}
         /\ calls[i].current_hostname = HostA
         /\ calls[i].current_file = CurrentFileName(HostA, 999, 2000))
            => Range(calls[i].ret.files) = {CompletedFileName(HostA, 1000),
                                            CurrentFileName(HostB, 200, 1000)}

\* a name with at least four fields, the completed marker apart, of which the
\* last is an integer
ParsableName(name) ==
    LET parts == Split(Replace(Stem(name), CompletedMark))
    IN  Len(parts) >= 4 /\ IsInt(parts[Len(parts)])

\* C16: get_safe_files_for_merge never raises, whatever names the globs match,
\* and the names that do not parse come after every name that does.
C16_SelectNeverRaises ==
    \A i \in 1..Len(calls) :
        calls[i].op = "select" =>
            /\ ~calls[i].ret.raised
            /\ \A a, b \in 1..Len(calls[i].ret.files) :
                  (ParsableName(calls[i].ret.files[a]) /\ ~ParsableName(calls[i].ret.files[b]))
                      => a < b

\* C17: whatever the local hostname, with or without "_", no non-completed
\* file written by a process of the local host is returned.
C17_LocalFilesExcluded ==
    \A i \in 1..Len(calls) :
        calls[i].op = "select" =>
            \A name \in Range(calls[i].ret.files) :
                IsGrammarName(name) =>
                    ~(/\ ~WriterOf(name).completed
                      /\ WriterOf(name).hostname = calls[i].current_hostname)

----------------------------------------------------------------------------
(* SpecCleanup: cleanup_old_files on the directories of CleanupNames *)

\* max_age_seconds: int = 300
MaxAgeSeconds == 300

\* a file of HostA whose timestamp field is no integer
NonIntegerName == Prefix \o HostA \o <<"_", "5", "_", "x">> \o DotDb

CleanupNames == {FileName(f) : f \in CleanupFiles} \cup {NonIntegerName}

\* time.time() of the sweep, in half seconds: 1299.5 s to 1301 s
CleanupClocks == (2 * (1000 + MaxAgeSeconds) - 1)..(2 * (1000 + MaxAgeSeconds) + 2)

CleanupInit ==
    /\ \E files \in SUBSET CleanupNames :
          /\ Cardinality(files) <= MaxDirFiles
          /\ dir = [f \in files |-> EmptyFile]
    /\ clock \in CleanupClocks
    /\ procs = <<>>
    /\ calls = <<>>

CleanupCall ==
    /\ calls = <<>>
    /\ \E hostname \in {HostA, HostB, HostUnderscore},
          current \in {f \in CleanupFiles : ~f.completed} :
          /\ calls' = <<[op |-> "cleanup", before |-> dir, hostname |-> hostname,
                         current_file |-> FileName(current),
                         max_age_seconds |-> MaxAgeSeconds, time |-> clock]>>
          /\ dir' = cleanup_old_files(dir, hostname, FileName(current), MaxAgeSeconds, clock)
    /\ UNCHANGED <<clock, procs>>

SpecCleanup == CleanupInit /\ [][CleanupCall]_vars

\* a name of one of the two patterns of a host: ipython_history_<host>_ ... .db
NamedForHost(name, hostname) ==
    LET pre == Prefix \o hostname \o Underscore
    IN  /\ Len(name) >= Len(pre) + Len(DotDb)
        /\ \A i \in 1..Len(pre) : name[i] = pre[i]
        /\ \A i \in 1..Len(DotDb) : name[Len(name) - Len(DotDb) + i] = DotDb[i]

\* a timestamp strictly before time - max_age_seconds (time in half seconds)
OlderThanCutoff(timestamp, call) == 2 * timestamp < call.time - 2 * call.max_age_seconds

Unparsable(name) == ~IsGrammarName(name) \/ HasUnderscore(WriterOf(name).hostname)

\* C8: cleanup never deletes a file of a host other than the given one, nor a
\* file whose name does not parse under the filename grammar.
C8_ForeignAndUnparsableKept ==
    \A i \in 1..Len(calls) :
        calls[i].op = "cleanup" =>
            \A name \in DOMAIN calls[i].before :
                (\/ Unparsable(name)
                 \/ WriterOf(name).hostname # calls[i].hostname)
                    => name \in DOMAIN dir /\ dir[name] = calls[i].before[name]

----------------------------------------------------------------------------
(* SpecMerge: merge_histories on directories of small stores *)

\* the most source files in a directory and in a call of SpecMerge
MaxSources == 2

SessionRow(session, start, num_cmds) ==
    [session |-> session, start |-> start, end |-> start + 1, num_cmds |-> num_cmds,
     remark |-> ""]

HistoryRow(session, line, source, source_raw) ==
    [session |-> session, line |-> line, source |-> source, source_raw |-> source_raw]

OutputRow(session, line, output) == [session |-> session, line |-> line, output |-> output]

\* a store written under the schema of lines 70-84
Store(sessions, history, output_history) ==
    [isdb |-> TRUE, tables |-> TableNames, sessions |-> sessions, history |-> history,
     output_history |-> output_history]

\* two sessions: one command; two commands and an empty-string output
StoreOne ==
    Store({SessionRow(1, 10, 1), SessionRow(2, 12, 2)},
          {HistoryRow(1, 1, "x", "x"), HistoryRow(2, 1, "x", "x"), HistoryRow(2, 2, "z", "z")},
          {OutputRow(2, 2, "")})

\* an empty session, and the one-command session under another id and start
StoreTwo ==
    Store({SessionRow(1, 20, 0), SessionRow(2, 22, 1)},
          {HistoryRow(2, 1, "x", "x")},
          {})

\* no output_history table; a NULL source_raw; sessions 1 and 3 with the same
\* signature and other metadata
StoreNoOutput ==
    [isdb |-> TRUE, tables |-> {"sessions", "history"},
     sessions |-> {SessionRow(1, 30, 1), SessionRow(2, 32, 1), SessionRow(3, 34, 1)},
     history |-> {HistoryRow(1, 1, "x", Null), HistoryRow(2, 1, "x", "x"),
                  HistoryRow(3, 1, "x", "")},
     output_history |-> {}]

\* ids 2 and 3; an empty-string source_raw; an output; a NULL output
StoreThree ==
    Store({SessionRow(2, 40, 1), SessionRow(3, 42, 1), SessionRow(4, 44, 2)},
          {HistoryRow(2, 1, "x", ""), HistoryRow(3, 1, "x", "x"),
           HistoryRow(4, 1, "x", "x"), HistoryRow(4, 2, "z", "z")},
          {OutputRow(3, 1, "y"), OutputRow(4, 2, Null)})

\* a sessions table with a row, and no history table
StoreNoHistory ==
    [isdb |-> TRUE, tables |-> {"sessions", "output_history"},
     sessions |-> {SessionRow(1, 50, 0)}, history |-> {}, output_history |-> {}]

MergeStores ==
    {StoreOne, StoreTwo, StoreNoOutput, StoreThree, StoreNoHistory, ZeroLengthStore,
     GarbageStore}

\* the source files: two stamped 1000, one stamped 2000, and one whose name
\* carries no timestamp and whose mtime is 1500
SourceStampedFirst == CurrentFileName(HostB, 200, 1000)
SourceStampedSame == CompletedFileName(HostB, 1000)
SourceStampedLater == CompletedFileName(HostA, 2000)
SourceUnstamped == NonIntegerName

MergeNames == {SourceStampedFirst, SourceStampedSame, SourceStampedLater, SourceUnstamped}

\* two targets that no directory of SpecMerge holds at first
FirstTarget == CurrentFileName(HostA, 999, 2000)
SecondTarget == CurrentFileName(HostA, 998, 2000)

\* the lists of distinct source files a call may pass
SourceLists ==
    UNION {Listings(files) : files \in {fs \in SUBSET MergeNames :
                                          fs # {} /\ Cardinality(fs) <= MaxSources}}

\* what a call keeps of what merge_histories returned
Returned(r) ==
    [raised |-> r.raised, files |-> r.files, sessions |-> r.sessions,
     accepted |-> r.accepted, warnings |-> r.warnings]

MergeInit ==
    /\ \E files \in SUBSET MergeNames :
          /\ Cardinality(files) <= MaxSources
          /\ dir \in [files -> {[mtime |-> 1500, store |-> st] : st \in MergeStores}]
    /\ clock = 2 * 2000
    /\ procs = <<>>
    /\ calls = <<>>

\* a first call: any list of sources, into a new file or onto a file of the
\* directory that is no source
MergeCall ==
    /\ calls = <<>>
    /\ \E source_files \in SourceLists :
       \E target_file \in ({FirstTarget} \cup DOMAIN dir) \ Range(source_files) :
          LET r == merge_histories(source_files, target_file, dir, clock \div 2)
          IN  /\ calls' = <<[op |-> "merge", source_files |-> source_files,
                             target_file |-> target_file, before |-> dir,
                             ret |-> Returned(r)]>>
              /\ dir' = r.dir
    /\ UNCHANGED <<clock, procs>>

Reverse(seq) == [i \in 1..Len(seq) |-> seq[Len(seq) + 1 - i]]

\* a second call: the sources of the first, in the same order or the opposite
\* one, into another new file
MergeAgain ==
    /\ Len(calls) = 1
    /\ calls[1].op = "merge"
    /\ calls[1].target_file = FirstTarget
    /\ \E source_files \in {calls[1].source_files, Reverse(calls[1].source_files)} :
          LET r == merge_histories(source_files, SecondTarget, dir, clock \div 2)
          IN  /\ calls' = Append(calls, [op |-> "merge", source_files |-> source_files,
                                         target_file |-> SecondTarget, before |-> dir,
                                         ret |-> Returned(r)])
              /\ dir' = r.dir
    /\ UNCHANGED <<clock, procs>>

MergeNext == MergeCall \/ MergeAgain

SpecMerge == MergeInit /\ [][MergeNext]_vars

----------------------------------------------------------------------------
(* What the claims about merge speak of *)

\* NULL read as the empty string
Blank(text) == IF text = Null THEN "" ELSE text

\* the signature of a session of a store: its commands and its outputs, each
\* with its line, NULL read as the empty string (lines are unique in a session,
\* so the ordered tuples and these sets determine each other)
SignatureOf(store, session) ==
    <<{<<r.line, Blank(r.source), Blank(r.source_raw)>> :
          r \in {h \in store.history : h.session = session}},
      {<<r.line, Blank(r.output)>> :
          r \in {o \in store.output_history : o.session = session}}>>

Signatures(store) == {SignatureOf(store, r.session) : r \in store.sessions}

\* a store merge can read to its end
Readable(store) ==
    /\ store.isdb
    /\ "sessions" \in store.tables
    /\ store.sessions = {} \/ "history" \in store.tables

\* the sources of a call that were there and readable
ReadSources(call) ==
    {f \in Range(call.source_files) \cap DOMAIN call.before : Readable(call.before[f].store)}

\* the sources of a call that were missing or unreadable
BadSources(call) == Range(call.source_files) \ ReadSources(call)

\* the signatures of all sessions of the read sources
SourceSignatures(call) ==
    UNION {Signatures(call.before[f].store) : f \in ReadSources(call)}

\* a merge call into a file that did not exist
FreshMerge(call) == call.op = "merge" /\ call.target_file \notin DOMAIN call.before

\* the target of a call, as the directory holds it now
TargetOf(call) == dir[call.target_file].store

SessionIds(store) == {r.session : r \in store.sessions}

\* the timestamp in the name of a source of SpecMerge (none in SourceUnstamped)
StampOf(name) ==
    CASE name = SourceStampedFirst -> 1000
      [] name = SourceStampedSame -> 1000
      [] name = SourceStampedLater -> 2000
      [] OTHER -> -1

\* C2: after a merge into a fresh target, every signature of a read source is
\* the signature of exactly one session of the target.
C2_OneSessionPerSignature ==
    \A i \in 1..Len(calls) :
        FreshMerge(calls[i]) =>
            \A sig \in SourceSignatures(calls[i]) :
                Cardinality({t \in SessionIds(TargetOf(calls[i])) :
                                SignatureOf(TargetOf(calls[i]), t) = sig}) = 1

\* C2 witness: two sources held the same content under different ids, a source
\* held a session without commands and outputs, and the target holds sessions
C2_Witness ==
    /\ Len(calls) = 1
    /\ FreshMerge(calls[1])
    /\ \E f, g \in ReadSources(calls[1]) :
          /\ f # g
          /\ \E a \in SessionIds(calls[1].before[f].store),
                b \in SessionIds(calls[1].before[g].store) :
                /\ a # b
                /\ SignatureOf(calls[1].before[f].store, a)
                     = SignatureOf(calls[1].before[g].store, b)
    /\ <<{}, {}>> \in SourceSignatures(calls[1])
    /\ Cardinality(TargetOf(calls[1]).sessions) = 3

\* C3: after a merge into a fresh target the session ids are exactly 1..N, N
\* the number of distinct signatures of the read sources; every history and
\* output row carries one of them; and the count reported is N.
C3_GapFreeIds ==
    \A i \in 1..Len(calls) :
        FreshMerge(calls[i]) =>
            LET n == Cardinality(SourceSignatures(calls[i]))
                target == TargetOf(calls[i])
            IN  /\ SessionIds(target) = 1..n
                /\ Cardinality(target.sessions) = n
                /\ \A r \in target.history \cup target.output_history : r.session \in 1..n
                /\ calls[i].ret.sessions = n

\* C3 witness: two sources both gave sessions to a target of at least three
C3_Witness ==
    /\ Len(calls) = 1
    /\ FreshMerge(calls[1])
    /\ Cardinality({calls[1].ret.accepted[k].file : k \in 1..Len(calls[1].ret.accepted)}) = 2
    /\ calls[1].ret.sessions >= 3
    /\ \E r \in TargetOf(calls[1]).output_history : r.session = 3

\* C4: two sources with filename timestamps T1 < T2 that share no signature:
\* the sessions taken from the first get lower ids than those taken from the
\* second, in whatever order the call lists them; and the sessions of one
\* source keep the order of their original ids. (accepted[k] is the source
\* session behind target id k.)
C4_ChronologicalIds ==
    \A i \in 1..Len(calls) :
        FreshMerge(calls[i]) =>
            LET acc == calls[i].ret.accepted
                before == calls[i].before
            IN  /\ \A k \in 1..Len(acc) :
                      SignatureOf(TargetOf(calls[i]), k)
                        = SignatureOf(before[acc[k].file].store, acc[k].session)
                /\ \A k, m \in 1..Len(acc) :
                      /\ (/\ 0 <= StampOf(acc[k].file)
                          /\ StampOf(acc[k].file) < StampOf(acc[m].file)
                          /\ Signatures(before[acc[k].file].store)
                               \cap Signatures(before[acc[m].file].store) = {})
                            => k < m
                      /\ (acc[k].file = acc[m].file /\ acc[k].session < acc[m].session)
                            => k < m

\* C4 witness: the later source listed first, both sources gave sessions, and
\* they share no signature
C4_Witness ==
    /\ Len(calls) = 1
    /\ FreshMerge(calls[1])
    /\ calls[1].source_files = <<SourceStampedLater, SourceStampedFirst>>
    /\ Len(calls[1].ret.accepted) = 5
    /\ calls[1].ret.accepted[1].file = SourceStampedFirst
    /\ calls[1].ret.accepted[5].file = SourceStampedLater

\* C6: when some sources of a merge into a fresh target are missing or cannot
\* be read, merge does not raise, the target is written, and it holds exactly
\* the distinct sessions of the other sources, numbered 1..N.
C6_BadSourcesSkipped ==
    \A i \in 1..Len(calls) :
        (FreshMerge(calls[i]) /\ BadSources(calls[i]) # {}) =>
            /\ ~calls[i].ret.raised
            /\ calls[i].target_file \in DOMAIN dir
            /\ TargetOf(calls[i]).tables = TableNames
            /\ Signatures(TargetOf(calls[i])) = SourceSignatures(calls[i])
            /\ SessionIds(TargetOf(calls[i])) = 1..Cardinality(SourceSignatures(calls[i]))
            /\ Cardinality(TargetOf(calls[i]).sessions) = Cardinality(SourceSignatures(calls[i]))

\* C6 witness: the earlier source was not a database, the later one was read
\* and its sessions are in the target
C6_Witness ==
    /\ Len(calls) = 1
    /\ FreshMerge(calls[1])
    /\ calls[1].source_files = <<SourceStampedLater, SourceStampedFirst>>
    /\ DOMAIN calls[1].before = {SourceStampedLater, SourceStampedFirst}
    /\ calls[1].before[SourceStampedFirst].store = GarbageStore
    /\ calls[1].before[SourceStampedLater].store = StoreThree
    /\ calls[1].ret.warnings = <<SourceStampedFirst>>
    /\ Cardinality(TargetOf(calls[1]).sessions) = 3

\* C9: two merges of the same set of sources into two fresh targets give the
\* same set of signatures, whatever the two list orders; and with the same list
\* order, the same sessions under the same ids.
C9_SameSignaturesAnyOrder ==
    (Len(calls) = 2 /\ FreshMerge(calls[1]) /\ FreshMerge(calls[2])
        /\ Range(calls[1].source_files) = Range(calls[2].source_files)) =>
        /\ Signatures(TargetOf(calls[1])) = Signatures(TargetOf(calls[2]))
        /\ calls[1].source_files = calls[2].source_files
              => TargetOf(calls[1]) = TargetOf(calls[2])

\* C9 witness: the same two sources in opposite orders; the targets hold the
\* same signatures, under different ids
C9_Witness ==
    /\ Len(calls) = 2
    /\ FreshMerge(calls[1])
    /\ FreshMerge(calls[2])
    /\ Len(calls[1].source_files) = 2
    /\ calls[2].source_files = <<calls[1].source_files[2], calls[1].source_files[1]>>
    /\ Cardinality(TargetOf(calls[1]).sessions) >= 2
    /\ TargetOf(calls[1]) # TargetOf(calls[2])

\* a store with sessions and commands and without the output_history table
LacksOutputTable(store) ==
    /\ store.isdb
    /\ {"sessions", "history"} \subseteq store.tables
    /\ "output_history" \notin store.tables

\* C10: a source without output_history is merged without error: each of its
\* sessions is in the target exactly once, with its commands and no outputs,
\* also when another source holds the same commands with zero outputs.
C10_MissingOutputTable ==
    \A i \in 1..Len(calls) :
        FreshMerge(calls[i]) =>
            \A f \in Range(calls[i].source_files) \cap DOMAIN calls[i].before :
                LacksOutputTable(calls[i].before[f].store) =>
                    /\ ~calls[i].ret.raised
                    /\ \A k \in 1..Len(calls[i].ret.warnings) : calls[i].ret.warnings[k] # f
                    /\ \A r \in calls[i].before[f].store.sessions :
                          Cardinality({t \in SessionIds(TargetOf(calls[i])) :
                              SignatureOf(TargetOf(calls[i]), t)
                                = <<SignatureOf(calls[i].before[f].store, r.session)[1], {}>>}) = 1

\* C10 witness: a source without the table and a source with the table and the
\* same one-command session without outputs; the target holds three sessions
C10_Witness ==
    /\ Len(calls) = 1
    /\ FreshMerge(calls[1])
    /\ DOMAIN calls[1].before = {SourceStampedFirst, SourceStampedLater}
    /\ calls[1].before[SourceStampedFirst].store = StoreTwo
    /\ calls[1].before[SourceStampedLater].store = StoreNoOutput
    /\ Len(calls[1].source_files) = 2
    /\ calls[1].ret.warnings = <<>>
    /\ Cardinality(TargetOf(calls[1]).sessions) = 3

\* the target of a call as it was before the call: no tables when it was not there
TargetBefore(call) ==
    IF call.target_file \in DOMAIN call.before THEN call.before[call.target_file].store
    ELSE ZeroLengthStore

\* the sources a call gave up with a warning
GivenUp(call) == Range(call.ret.warnings)

\* C11: a source given up on an error leaves nothing in the target: none of the
\* sessions accepted in the run came from it; and every session row the run
\* added to the target belongs to an accepted session, written with all its
\* command and output rows.
C11_AbandonedWholesale ==
    \A i \in 1..Len(calls) :
        (calls[i].op = "merge" /\ ~calls[i].ret.raised) =>
            LET acc == calls[i].ret.accepted
            IN  /\ \A k \in 1..Len(acc) : acc[k].file \notin GivenUp(calls[i])
                /\ SessionIds(TargetOf(calls[i])) \ SessionIds(TargetBefore(calls[i]))
                      \subseteq 1..Len(acc)

\* C13: an insert into the target that fails makes merge raise: a run that
\* returns has given up only sources it could not read.
C13_WriteErrorsRaise ==
    \A i \in 1..Len(calls) :
        (calls[i].op = "merge" /\ ~calls[i].ret.raised) =>
            GivenUp(calls[i]) \subseteq BadSources(calls[i])

\* the rows of a session of a store, as they are under another session id
RowsUnder(table, session, id) ==
    {[r EXCEPT !.session = id] : r \in {x \in table : x.session = session}}

\* C19: every session merge accepted is in the target under its new id with
\* the lines and the stored values of the source, a NULL still a NULL; and the
\* files of the sources hold what they held before.
C19_CopiedVerbatim ==
    \A i \in 1..Len(calls) :
        (calls[i].op = "merge" /\ ~calls[i].ret.raised) =>
            LET acc == calls[i].ret.accepted
                before == calls[i].before
                target == TargetOf(calls[i])
            IN  /\ \A k \in 1..Len(acc) :
                      LET src == before[acc[k].file].store
                      IN  /\ RowsUnder(target.history, k, k)
                               = RowsUnder(src.history, acc[k].session, k)
                          /\ RowsUnder(target.output_history, k, k)
                               = RowsUnder(src.output_history, acc[k].session, k)
                /\ \A f \in Range(calls[i].source_files) \cap DOMAIN before :
                      f \in DOMAIN dir /\ dir[f] = before[f]

\* C19 witness: the target of a merge of two sources holds a command whose
\* source_raw is NULL and an output that is NULL
C19_Witness ==
    /\ Len(calls) = 1
    /\ FreshMerge(calls[1])
    /\ Cardinality({calls[1].ret.accepted[k].file : k \in 1..Len(calls[1].ret.accepted)}) = 2
    /\ \E r \in TargetOf(calls[1]).history : r.source_raw = Null
    /\ \E r \in TargetOf(calls[1]).output_history : r.output = Null

\* the timestamp merge sorts a source of a call by: of its name, or else its mtime
SortStampOf(call, f) == IF StampOf(f) >= 0 THEN StampOf(f) ELSE call.before[f].mtime

\* the start, end, num_cmds and remark of a session row
Metadata(row) == <<row.start, row.end, row.num_cmds, row.remark>>

\* the session of a store under an id
SessionOf(store, id) == CHOOSE r \in store.sessions : r.session = id

\* C20: of the sessions of the read sources that share a signature, the one
\* merge takes, with its metadata, is one that no other precedes: none of a
\* source with a smaller timestamp, and none of the same source with a smaller
\* id.
C20_FirstOccurrenceMetadata ==
    \A i \in 1..Len(calls) :
        FreshMerge(calls[i]) =>
            LET acc == calls[i].ret.accepted
                before == calls[i].before
                target == TargetOf(calls[i])
            IN  \A k \in 1..Len(acc) :
                    LET src == before[acc[k].file].store
                        sig == SignatureOf(src, acc[k].session)
                    IN  /\ Metadata(SessionOf(target, k)) = Metadata(SessionOf(src, acc[k].session))
                        /\ Cardinality({t \in target.sessions : SignatureOf(target, t.session) = sig}) = 1
                        /\ \A g \in ReadSources(calls[i]) :
                              \A r \in before[g].store.sessions :
                                  SignatureOf(before[g].store, r.session) = sig =>
                                      /\ SortStampOf(calls[i], g) >= SortStampOf(calls[i], acc[k].file)
                                      /\ g = acc[k].file => r.session >= acc[k].session

\* C20 witness: the later of two sources is listed first; both hold the
\* one-command session, with different start times; the target holds it with
\* the start time of the earlier source. And a source holds a signature twice.
C20_Witness ==
    /\ Len(calls) = 1
    /\ FreshMerge(calls[1])
    /\ calls[1].source_files = <<SourceStampedLater, SourceStampedFirst>>
    /\ DOMAIN calls[1].before = {SourceStampedLater, SourceStampedFirst}
    /\ calls[1].before[SourceStampedFirst].store = StoreNoOutput
    /\ calls[1].before[SourceStampedLater].store = StoreTwo
    /\ {r.start : r \in TargetOf(calls[1]).sessions} = {30, 32, 20}

----------------------------------------------------------------------------
(* Spec: IPython processes that start, record and exit on one directory, *)
(* which the file sync also fills with the files of a peer machine        *)

\* the number of processes
NumProcs == 2

\* the most commands a process records
MaxCommands == 1

\* the most half-second ticks of the clock, beside the jumps of MaxAgeSeconds
MaxTicks == 1

Procs == 1..NumProcs

\* socket.gethostname(): the first two processes run on one host
HostOf(p) == IF p <= 2 THEN HostA ELSE HostB

\* os.getpid()
PidOf(p) == 100 + p

StartClock == 2 * 1000

\* line 243
current_file(p) == CurrentFileName(HostOf(p), PidOf(p), procs[p].timestamp)

\* line 257
completed_file(p) == CompletedFileName(HostOf(p), procs[p].timestamp)

\* The remark column of a session row names the interactive session the row
\* records: the process that recorded it, or the peer. merge_histories copies
\* the column and never reads it.
ProcTags == <<"p1", "p2", "p3", "p4">>
SessionTag(p) == ProcTags[p]
PeerTag == "peer"

\* the files of an IPython process on another machine, started at 900
PeerFile == CurrentFileName(HostB, 200, 900)
PeerCompletedFile == CompletedFileName(HostB, 900)

\* the store of the peer when its session holds n commands
PeerStore(n) ==
    Store({[SessionRow(1, 900, n) EXCEPT !.remark = PeerTag]},
          {HistoryRow(1, line, "y", "y") : line \in 1..n},
          {})

\* what a reader finds in a file that shutil.copy2 has opened for writing and
\* not yet filled: nothing, or part of a database
PartialCopies == {ZeroLengthStore, GarbageStore}

NoStore == [isdb |-> FALSE, tables |-> {}, sessions |-> {}, history |-> {}, output_history |-> {}]

NoFile == [mtime |-> 0, store |-> NoStore]

Init ==
    /\ dir = <<>>
    /\ clock = StartClock
    /\ procs = [p \in Procs |-> [pc |-> "idle", timestamp |-> 0, session |-> 0,
                                 hist |-> NoStore, read |-> {}, copy |-> NoFile]]
    /\ calls = <<>>

\* time passes: half a second
TickHalf ==
    /\ clock + 1 <= StartClock + 2 * MaxAgeSeconds + MaxTicks
    /\ ((clock - StartClock) % (2 * MaxAgeSeconds)) + 1 <= MaxTicks
    /\ clock' = clock + 1
    /\ UNCHANGED <<dir, procs, calls>>

\* time passes: max_age_seconds
TickAge ==
    /\ clock + 2 * MaxAgeSeconds <= StartClock + 2 * MaxAgeSeconds + MaxTicks
    /\ clock' = clock + 2 * MaxAgeSeconds
    /\ UNCHANGED <<dir, procs, calls>>

\* the file sync delivers the peer's in-progress file as it is by now: whole,
\* under its final name, and never an earlier content than the one delivered
\* before. Once the peer has exited the file changes no more.
SyncPeerFile ==
    /\ PeerCompletedFile \notin DOMAIN dir
    /\ \E n \in 0..MaxCommands :
          /\ PeerFile \in DOMAIN dir => Cardinality(dir[PeerFile].store.history) < n
          /\ dir' = (PeerFile :> [mtime |-> 900, store |-> PeerStore(n)]) @@ dir
    /\ UNCHANGED <<clock, procs, calls>>

\* the peer has exited, and the file sync delivers its completed snapshot: the
\* final content of its store
SyncPeerCompleted ==
    /\ PeerCompletedFile \notin DOMAIN dir
    /\ \E n \in 0..MaxCommands :
          /\ PeerFile \in DOMAIN dir => Cardinality(dir[PeerFile].store.history) <= n
          /\ dir' = (PeerCompletedFile :> [mtime |-> 900, store |-> PeerStore(n)]) @@ dir
    /\ UNCHANGED <<clock, procs, calls>>

\* one order of a set of files
RECURSIVE SomeListing(_)
SomeListing(files) ==
    IF files = {} THEN <<>>
    ELSE LET f == CHOOSE x \in files : TRUE
         IN  <<f>> \o SomeListing(files \ {f})

\* the orders in which the directory is listed to a process: one order and its
\* opposite, so that any two files are met in either order
DirListings(files) == {SomeListing(files), Reverse(SomeListing(files))}

\* lines 237-254: the names, the selection and the merge. An exception of
\* either ends the process. read: the files the merge was given.
Start(p) ==
    /\ procs[p].pc = "idle"
    /\ \E listing \in DirListings(DOMAIN dir) :
          LET timestamp == clock \div 2
              current == CurrentFileName(HostOf(p), PidOf(p), timestamp)
              safe == get_safe_files_for_merge(listing, current, HostOf(p))
              merged == merge_histories(safe.files, current, dir, timestamp)
          IN  IF safe.raised \/ (safe.files # <<>> /\ merged.raised)
              THEN /\ procs' = [procs EXCEPT ![p].pc = "failed", ![p].timestamp = timestamp,
                                             ![p].read = Range(safe.files)]
                   /\ dir' = dir
              ELSE /\ procs' = [procs EXCEPT ![p].pc = "merged", ![p].timestamp = timestamp,
                                             ![p].read = Range(safe.files)]
                   /\ dir' = IF safe.files # <<>> THEN merged.dir ELSE dir
    /\ UNCHANGED <<clock, calls>>

\* shutil.copy2(current_file, completed_file) opens both files, which empties
\* the completed file, and then writes the content: until it is done a reader
\* finds one of PartialCopies under the completed name
BeginCopy(p, partial) == (completed_file(p) :> [mtime |-> clock \div 2, store |-> partial]) @@ dir

\* the copy is done: the content and the mtime of the file that was opened
EndCopy(p) == (completed_file(p) :> procs[p].copy) @@ dir

\* lines 256-259, no current_file: nothing is copied
SnapshotNothing(p) ==
    /\ procs[p].pc = "merged"
    /\ current_file(p) \notin DOMAIN dir
    /\ procs' = [procs EXCEPT ![p].pc = "copied"]
    /\ UNCHANGED <<dir, clock, calls>>

\* lines 256-259: the copy begins
SnapshotBegin(p) ==
    /\ procs[p].pc = "merged"
    /\ current_file(p) \in DOMAIN dir
    /\ \E partial \in PartialCopies : dir' = BeginCopy(p, partial)
    /\ procs' = [procs EXCEPT ![p].pc = "copying", ![p].copy = dir[current_file(p)]]
    /\ UNCHANGED <<clock, calls>>

\* lines 256-259: the copy ends
SnapshotEnd(p) ==
    /\ procs[p].pc = "copying"
    /\ dir' = EndCopy(p)
    /\ procs' = [procs EXCEPT ![p].pc = "copied", ![p].copy = NoFile]
    /\ UNCHANGED <<clock, calls>>

\* line 262
Cleanup(p) ==
    /\ procs[p].pc = "copied"
    /\ dir' = cleanup_old_files(dir, HostOf(p), current_file(p), MaxAgeSeconds, clock)
    /\ procs' = [procs EXCEPT ![p].pc = "returned"]
    /\ UNCHANGED <<clock, calls>>

\* line 278: IPython opens the path it was given: it creates the file and the
\* tables where missing, and starts a session under the next id
OpenHistory(p) ==
    /\ procs[p].pc = "returned"
    /\ LET old == IF current_file(p) \in DOMAIN dir THEN dir[current_file(p)].store
                  ELSE ZeroLengthStore
           session == 1 + Cardinality(old.sessions)
           row == [SessionRow(session, procs[p].timestamp, 0) EXCEPT !.remark = SessionTag(p)]
           store == [CreateTables(old) EXCEPT !.sessions = @ \cup {row}]
       IN  /\ procs' = [procs EXCEPT ![p].pc = "running", ![p].session = session, ![p].hist = store]
           /\ dir' = (current_file(p) :> [mtime |-> clock \div 2, store |-> store]) @@ dir
    /\ UNCHANGED <<clock, calls>>

\* IPython records a command in the store it has open; the directory shows it
\* while the path still names that store
Record(p) ==
    /\ procs[p].pc = "running"
    /\ LET line == 1 + Cardinality({r \in procs[p].hist.history : r.session = procs[p].session})
           store == [procs[p].hist EXCEPT !.history = @ \cup {HistoryRow(procs[p].session, line, "x", "x")}]
       IN  /\ line <= MaxCommands
           /\ procs' = [procs EXCEPT ![p].hist = store]
           /\ dir' = IF current_file(p) \in DOMAIN dir
                     THEN [dir EXCEPT ![current_file(p)] = [mtime |-> clock \div 2, store |-> store]]
                     ELSE dir
    /\ UNCHANGED <<clock, calls>>

\* lines 265-276: normal termination runs cleanup_on_exit; no current_file:
\* nothing is copied
ExitNothing(p) ==
    /\ procs[p].pc = "running"
    /\ current_file(p) \notin DOMAIN dir
    /\ procs' = [procs EXCEPT ![p].pc = "exited"]
    /\ UNCHANGED <<dir, clock, calls>>

\* lines 265-276: the copy of cleanup_on_exit begins
ExitBegin(p) ==
    /\ procs[p].pc = "running"
    /\ current_file(p) \in DOMAIN dir
    /\ \E partial \in PartialCopies : dir' = BeginCopy(p, partial)
    /\ procs' = [procs EXCEPT ![p].pc = "exiting", ![p].copy = dir[current_file(p)]]
    /\ UNCHANGED <<clock, calls>>

\* lines 265-276: the copy of cleanup_on_exit ends, and the process with it
ExitEnd(p) ==
    /\ procs[p].pc = "exiting"
    /\ dir' = EndCopy(p)
    /\ procs' = [procs EXCEPT ![p].pc = "exited", ![p].copy = NoFile]
    /\ UNCHANGED <<clock, calls>>

Next ==
    \/ TickHalf
    \/ TickAge
    \/ SyncPeerFile
    \/ SyncPeerCompleted
    \/ \E p \in Procs :
          \/ Start(p)
          \/ SnapshotNothing(p) \/ SnapshotBegin(p) \/ SnapshotEnd(p)
          \/ Cleanup(p)
          \/ OpenHistory(p)
          \/ Record(p)
          \/ ExitNothing(p) \/ ExitBegin(p) \/ ExitEnd(p)

Spec == Init /\ [][Next]_vars

\* C5: when a process terminates normally, then a completed file of that
\* process exists and holds the final content of its in-progress store, in
\* every interleaving with the start-up of other processes.
C5_FinalizeOnExit ==
    [][\A p \in Procs :
          (procs[p].pc # "exited" /\ procs'[p].pc = "exited") =>
              /\ completed_file(p) \in DOMAIN dir'
              /\ dir'[completed_file(p)].store = procs'[p].hist]_vars

\* C12: a file that a running process is writing its history to stays in the
\* directory until that process has terminated, whatever the other processes
\* of the host do.
C12_LiveFileKept ==
    \A p \in Procs : procs[p].pc = "running" => current_file(p) \in DOMAIN dir

\* C14: one interactive session is at most one session of any store of the
\* directory, whatever copies of it the merges have met.
C14_LogicalSessionOnce ==
    \A f \in DOMAIN dir :
        \A r1, r2 \in dir[f].store.sessions :
            r1.remark = r2.remark => r1.session = r2.session

\* C15: when a process starts and its merge reads a file with a completed
\* name, no process is in the middle of writing that file.
C15_CompletedNeverBeingWritten ==
    [][\A q \in Procs :
          (procs[q].pc = "idle" /\ procs'[q].pc # "idle") =>
              \A f \in procs'[q].read :
                  Contains(f, CompletedMark) =>
                      \A p \in Procs :
                          ~(procs[p].pc \in {"copying", "exiting"} /\ completed_file(p) = f)]_vars

\* C18: two processes that have started never have the same in-progress path
\* nor the same completed path.
C18_PathsUniquePerProcess ==
    \A p, q \in Procs :
        (p # q /\ procs[p].pc # "idle" /\ procs[q].pc # "idle") =>
            /\ current_file(p) # current_file(q)
            /\ completed_file(p) # completed_file(q)

====
